---- MODULE Spec2Model ----
(***************************************************************************)
(* Model of the GXT editor's document store, validator, action gate and    *)
(* persistence flows (src/src/App.tsx).  One action per UI event handler   *)
(* or service reply.  Strings that are normalized or compared by the code  *)
(* (KEYs) are sequences of UTF-16 code units; every other string is an     *)
(* opaque token.                                                           *)
(***************************************************************************)
EXTENDS Bags, FiniteSets, Integers, Sequences, TLC

VARIABLES filePath, entries, dirty, busy, snack, confirmUnsavedOpen,
          pendingActionRef, flows, startup, limits, ev, savedEntries

vars == <<filePath, entries, dirty, busy, snack, confirmUnsavedOpen,
          pendingActionRef, flows, startup, limits, ev, savedEntries>>

docVars == <<filePath, entries, dirty>>

\* ---------------------------------------------------------------- bounds
\* the entries a user may add up to and the async flows that may be pending
\* at once, for the editing runs (Spec) and the overlapping runs (SpecOverlap)
MaxEntries == 2
MaxFlows == 1
MaxEntriesOverlap == 1
MaxFlowsOverlap == 2
\* the entries of a loaded document in the document runs (SpecDoc)
MaxDocEntries == 3
\* the lengths of the texts given to normalizeKey in the key runs (SpecKey):
\* texts over three characters, and texts over the characters at the edges
\* of the printable range
MaxKeyInput == 9
MaxEdgeInput == 2
\* the entries of the documents updateEntry is called on (SpecUpdate)
MaxUpdateEntries == 3

\* ------------------------------------------------------------ value sets
NoPath == "null"
Undef == "undefined"
Paths == {"a.gxt", "b.gxt"}

kA == <<65>>
kAe == <<65, 233>>

\* texts a user types into a KEY field / a VALUE field
TypedKeys == {<< >>, kA, kAe}
TypedValues == {"x"}

\* entry lists the load service may return (empty, valid, malformed,
\* duplicate)
LoadEntries ==
    { << >>,
      <<[key |-> kA, value |-> ""]>>,
      <<[key |-> kAe, value |-> ""]>>,
      <<[key |-> kA, value |-> ""], [key |-> kA, value |-> ""]>> }

\* KEYs and VALUEs of the documents loaded in the document runs: "", "A",
\* "AB", "ABC", "B" and the malformed "A\u00e9"
DocKeys == {<< >>, kA, <<65, 66>>, <<65, 66, 67>>, <<66>>, kAe}
DocValues == {"x", "y"}
DocEntries ==
    UNION {[1..n -> [key : DocKeys, value : DocValues]] : n \in 0..MaxDocEntries}

\* texts given to normalizeKey: over "A", "B", "\u00e9" up to MaxKeyInput
\* long, over 0x1F, 0x20, "A", 0x7E, 0x7F, "\u00e9" up to MaxEdgeInput long,
\* and "h\u00e9llo!!123456"
KeyChars == {65, 66, 233}
EdgeChars == {31, 32, 65, 126, 127, 233}
ScenarioKey == <<104, 233, 108, 108, 111, 33, 33, 49, 50, 51, 52, 53, 54>>
KeyInputs ==
    UNION {[1..n -> KeyChars] : n \in 0..MaxKeyInput}
      \cup UNION {[1..n -> EdgeChars] : n \in 0..MaxEdgeInput}
      \cup {ScenarioKey}

NoDoc == [file_path |-> NoPath, entries |-> << >>]
NoAction == [kind |-> "none", path |-> NoPath]
NoEv == [op |-> "init", req |-> NoAction, exec |-> NoAction, auth |-> FALSE]

\* ------------------------------------------------------- pure functions
\* variant of IsPrintable whose range ends one code later
IsPrintableWithDel(c) == c >= 32 /\ c <= 127

IsPrintable(c) == c >= 32 /\ c <= 126

\* variant of Take whose end index is off by one
TakeBelow(s, n) == SubSeq(s, 1, IF Len(s) < n - 1 THEN Len(s) ELSE n - 1)

Take(s, n) == SubSeq(s, 1, IF Len(s) < n THEN Len(s) ELSE n)

\* variant of normalizeKey whose replace lacks the g flag: only the first
\* character outside the range is removed
normalizeKeyFirstOnly(input) ==
    LET bad == {i \in 1..Len(input) : ~IsPrintable(input[i])}
        first == CHOOSE i \in bad : \A j \in bad : i <= j
    IN  Take(IF bad = {} THEN input
             ELSE SubSeq(input, 1, first - 1) \o SubSeq(input, first + 1, Len(input)),
             8)

normalizeKey(input) == Take(SelectSeq(input, IsPrintable), 8)

\* variant of toBackendDoc that sends the whole UI entry
toBackendDocWithId(fp, es) == [file_path |-> fp, entries |-> es]

toBackendDoc(fp, es) ==
    [file_path |-> fp,
     entries |-> [i \in 1..Len(es) |-> [key |-> es[i].key, value |-> es[i].value]]]

\* makeId: an identifier distinct from every identifier in use; the least
\* unused number stands for the random token
makeId(used) == CHOOSE n \in 1..(Cardinality(used) + 1) :
                    n \notin used /\ \A m \in 1..(n - 1) : m \in used

RECURSIVE freshEntries(_, _)
freshEntries(bes, used) ==
    IF bes = << >> THEN << >>
    ELSE LET id == makeId(used)
         IN  <<[id |-> id, key |-> Head(bes).key, value |-> Head(bes).value]>>
             \o freshEntries(Tail(bes), used \cup {id})

fromBackendDoc(doc) ==
    [filePath |-> doc.file_path, entries |-> freshEntries(doc.entries, {})]

\* variant of keyDupSet that flags a KEY only from its third occurrence on
keyDupSetFromThird(es) ==
    {k \in {es[i].key : i \in 1..Len(es)} \ {<< >>} :
        Cardinality({i \in 1..Len(es) : es[i].key = k}) > 2}

keyDupSet(es) ==
    {k \in {es[i].key : i \in 1..Len(es)} \ {<< >>} :
        Cardinality({i \in 1..Len(es) : es[i].key = k}) > 1}

\* the per-entry flags of the entry list rendering
keyEmpty(e) == e.key = << >>
keyDup(es, e) == e.key # << >> /\ e.key \in keyDupSet(es)
keyInvalid(e) == e.key # << >> /\ e.key # normalizeKey(e.key)

hasValidationError(es) ==
    \E i \in 1..Len(es) :
        \/ es[i].key = << >>
        \/ es[i].key # normalizeKey(es[i].key)
        \/ es[i].key \in keyDupSet(es)

Min(a, b) == IF a < b THEN a ELSE b

RECURSIVE cmpFrom(_, _, _)
cmpFrom(A, B, i) ==
    IF i > Min(Len(A), Len(B)) THEN Len(A) - Len(B)
    ELSE IF A[i] # B[i] THEN A[i] - B[i]
    ELSE cmpFrom(A, B, i + 1)

\* variant of compareKey that ignores the lengths after the common prefix
compareKeyPrefixTies(a, b) ==
    IF Len(a) = Len(b) THEN cmpFrom(a, b, 1)
    ELSE LET n == Min(Len(a), Len(b))
         IN  cmpFrom(SubSeq(a, 1, n), SubSeq(b, 1, n), 1)

compareKey(a, b) == cmpFrom(a, b, 1)

\* Array.prototype.sort is stable: insert each element after the last one
\* that does not compare greater
\* variant of insertSorted for a sort that is not stable: the element goes
\* before the ones that compare equal
RECURSIVE insertSortedUnstable(_, _)
insertSortedUnstable(sorted, e) ==
    IF sorted = << >> THEN <<e>>
    ELSE IF compareKey(Head(sorted).key, e.key) < 0
         THEN <<Head(sorted)>> \o insertSortedUnstable(Tail(sorted), e)
         ELSE <<e>> \o sorted

RECURSIVE insertSorted(_, _)
insertSorted(sorted, e) ==
    IF sorted = << >> THEN <<e>>
    ELSE IF compareKey(Head(sorted).key, e.key) <= 0
         THEN <<Head(sorted)>> \o insertSorted(Tail(sorted), e)
         ELSE <<e>> \o sorted

RECURSIVE sortEntries(_)
sortEntries(es) ==
    IF es = << >> THEN << >>
    ELSE insertSorted(sortEntries(SubSeq(es, 1, Len(es) - 1)), es[Len(es)])

idsOf(es) == {es[i].id : i \in 1..Len(es)}

Snack(sev) == [open |-> TRUE, severity |-> sev]

Flow(op, stage, path, es, doc, auth) ==
    [op |-> op, stage |-> stage, path |-> path, entries |-> es,
     doc |-> doc, auth |-> auth]

\* the record of the last handler run: which one, the guarded action it was
\* asked for, the guarded action it started, and whether a confirm-discard
\* covers it; kept only in runs that record it
Ev(op, req, exec, auth) ==
    IF limits.ev
    THEN [op |-> op, req |-> req, exec |-> exec, auth |-> auth]
    ELSE NoEv

\* the KEY/VALUE list of the last successful load, new or save; kept only
\* in runs that record it
Saved(bes) == IF limits.saved THEN bes ELSE << >>

AddFlow(f) == flows (+) SetToBag({f})
DelFlow(f) == flows (-) SetToBag({f})
FlowSet == BagToSet(flows)
Room == BagCardinality(flows) < limits.flows

\* a confirm-discard given before the document became dirty no longer counts
Unconfirm(fl) ==
    LET S == BagToSet(fl)
        T == {[f EXCEPT !.auth = FALSE] : f \in S}
        n(g) == IF g \in S THEN fl[g] ELSE 0
    IN  [g \in T |-> n(g) + n([g EXCEPT !.auth = TRUE])]

\* --------------------------------------------------- guarded operations
gate == <<confirmUnsavedOpen, pendingActionRef>>

doNew ==
    /\ filePath' = NoPath
    /\ entries' = << >>
    /\ dirty' = FALSE
    /\ snack' = Snack("info")
    /\ savedEntries' = << >>
    /\ UNCHANGED <<busy, flows>>

\* doOpen up to its first await (the open picker)
doOpen(auth) ==
    /\ Room
    /\ flows' = AddFlow(Flow("open", "picker", NoPath, << >>, NoDoc, auth))
    /\ UNCHANGED <<filePath, entries, dirty, busy, snack, savedEntries>>

\* doLoadFromPath up to its await of gxt_load
doLoadFromPath(path, auth) ==
    /\ Room
    /\ busy' = "loading"
    /\ flows' = AddFlow(Flow("loadPath", "invoke", path, << >>, NoDoc, auth))
    /\ UNCHANGED <<filePath, entries, dirty, snack, savedEntries>>

Execute(action, auth) ==
    \/ action.kind = "open" /\ doOpen(auth)
    \/ action.kind = "new" /\ doNew
    \/ action.kind = "loadPath" /\ doLoadFromPath(action.path, auth)

\* dirtySeen is the value of `dirty` in the closure that runs requestAction
requestAction(action, dirtySeen) ==
    IF ~dirtySeen
    THEN /\ Execute(action, FALSE)
         /\ ev' = Ev("requestAction", action, action, FALSE)
         /\ UNCHANGED gate
    ELSE /\ pendingActionRef' = action
         /\ confirmUnsavedOpen' = TRUE
         /\ ev' = Ev("requestAction", action, NoAction, FALSE)
         /\ UNCHANGED <<filePath, entries, dirty, busy, snack, flows, savedEntries>>

\* ------------------------------------------------------ save operations
refuseSave ==
    /\ snack' = Snack("error")
    /\ UNCHANGED <<filePath, entries, dirty, busy, flows, savedEntries>>

\* variant of doSaveAs without the validation test
doSaveAsUnchecked ==
    /\ Room
    /\ flows' = AddFlow(Flow("saveAs", "picker", NoPath, entries, NoDoc, FALSE))
    /\ UNCHANGED <<filePath, entries, dirty, busy, snack, savedEntries>>

\* doSaveAs up to its first await (the save picker); the closure keeps the
\* entries of the render that created it
doSaveAs ==
    IF hasValidationError(entries)
    THEN refuseSave
    ELSE /\ Room
         /\ flows' = AddFlow(Flow("saveAs", "picker", NoPath, entries, NoDoc, FALSE))
         /\ UNCHANGED <<filePath, entries, dirty, busy, snack, savedEntries>>

\* doSaveExistingPath up to its await of gxt_save
doSaveExistingPath ==
    IF filePath = NoPath THEN doSaveAs
    ELSE IF hasValidationError(entries)
    THEN refuseSave
    ELSE /\ Room
         /\ busy' = "saving"
         /\ flows' = AddFlow(Flow("save", "invoke", filePath, << >>,
                                  toBackendDoc(filePath, entries), FALSE))
         /\ UNCHANGED <<filePath, entries, dirty, snack, savedEntries>>

\* variant of onSaveRequested that sends the document as it is, path or not
onSaveRequestedSkipsPicker ==
    IF hasValidationError(entries)
    THEN refuseSave
    ELSE /\ Room
         /\ busy' = "saving"
         /\ flows' = AddFlow(Flow("save", "invoke", filePath, << >>,
                                  toBackendDoc(filePath, entries), FALSE))
         /\ UNCHANGED <<filePath, entries, dirty, snack, savedEntries>>

onSaveRequested ==
    IF filePath = NoPath THEN doSaveAs ELSE doSaveExistingPath

\* ------------------------------------------------- document operations
setDoc(doc) ==
    LET parsed == fromBackendDoc(doc)
    IN  /\ filePath' = parsed.filePath
        /\ entries' = parsed.entries
        /\ dirty' = FALSE

Merge(e, patch) ==
    [f \in DOMAIN e |-> IF f \in DOMAIN patch THEN patch[f] ELSE e[f]]

\* variant of markDirty that sets dirty only when the entries changed
markDirtyIfChanged ==
    /\ dirty' = (dirty \/ entries' # entries)
    /\ flows' = IF dirty THEN flows ELSE Unconfirm(flows)

\* setDirty(true), with the bookkeeping of which confirmations still count
markDirty ==
    /\ dirty' = TRUE
    /\ flows' = IF dirty THEN flows ELSE Unconfirm(flows)

\* variant of updateEntry whose map lacks the id test
updateEntryEvery(id, patch) ==
    /\ entries' = [i \in 1..Len(entries) |-> Merge(entries[i], patch)]
    /\ markDirty
    /\ UNCHANGED <<filePath, busy, snack, gate, startup, limits, savedEntries>>

updateEntry(id, patch) ==
    /\ entries' = [i \in 1..Len(entries) |->
                     IF entries[i].id = id THEN Merge(entries[i], patch)
                     ELSE entries[i]]
    /\ markDirty
    /\ UNCHANGED <<filePath, busy, snack, gate, startup, limits, savedEntries>>

addEntryAtEnd ==
    /\ Len(entries) < limits.entries
    /\ entries' = Append(entries, [id |-> makeId(idsOf(entries)), key |-> << >>, value |-> ""])
    /\ markDirty
    /\ ev' = Ev("addEntryAtEnd", NoAction, NoAction, FALSE)
    /\ UNCHANGED <<filePath, busy, snack, gate, startup, limits, savedEntries>>

sortByKey ==
    /\ entries' = sortEntries(entries)
    /\ markDirty
    /\ ev' = Ev("sortByKey", NoAction, NoAction, FALSE)
    /\ UNCHANGED <<filePath, busy, snack, gate, startup, limits, savedEntries>>

\* ------------------------------------------------------------------ Init
InitApp ==
    /\ filePath = NoPath
    /\ entries = << >>
    /\ dirty = FALSE
    /\ busy = "null"
    /\ snack = [open |-> FALSE, severity |-> "info"]
    /\ confirmUnsavedOpen = FALSE
    /\ pendingActionRef = NoAction
    /\ flows = EmptyBag
    /\ startup = "pending"
    /\ ev = NoEv
    /\ savedEntries = << >>

Init ==
    /\ InitApp
    /\ limits = [flows |-> MaxFlows, entries |-> MaxEntries, ev |-> TRUE,
                 saved |-> FALSE, allDocs |-> FALSE]

InitSaved ==
    /\ InitApp
    /\ limits = [flows |-> MaxFlows, entries |-> MaxEntries, ev |-> FALSE,
                 saved |-> TRUE, allDocs |-> FALSE]

InitOverlap ==
    /\ InitApp
    /\ limits = [flows |-> MaxFlowsOverlap, entries |-> MaxEntriesOverlap,
                 ev |-> FALSE, saved |-> FALSE, allDocs |-> FALSE]

\* ---------------------------------------------------------- user events
\* the confirmation Dialog is modal: pointer and text input reach only the
\* dialog while it is open; the window keydown listener still runs
ClickNew ==
    /\ ~confirmUnsavedOpen /\ busy = "null"
    /\ requestAction([kind |-> "new", path |-> NoPath], dirty)
    /\ UNCHANGED <<startup, limits>>

ClickOpen ==
    /\ ~confirmUnsavedOpen /\ busy = "null"
    /\ requestAction([kind |-> "open", path |-> NoPath], dirty)
    /\ UNCHANGED <<startup, limits>>

KeyCtrlN ==
    /\ requestAction([kind |-> "new", path |-> NoPath], dirty)
    /\ UNCHANGED <<startup, limits>>

KeyCtrlO ==
    /\ requestAction([kind |-> "open", path |-> NoPath], dirty)
    /\ UNCHANGED <<startup, limits>>

KeyCtrlS ==
    /\ onSaveRequested
    /\ ev' = Ev("onSaveRequested", NoAction, NoAction, FALSE)
    /\ UNCHANGED <<gate, startup, limits>>

saveDisabled == busy # "null" \/ hasValidationError(entries)

ClickSave ==
    /\ ~confirmUnsavedOpen /\ ~saveDisabled
    /\ onSaveRequested
    /\ ev' = Ev("onSaveRequested", NoAction, NoAction, FALSE)
    /\ UNCHANGED <<gate, startup, limits>>

ClickSaveAs ==
    /\ ~confirmUnsavedOpen
    /\ ~(busy # "null" \/ hasValidationError(entries) \/ Len(entries) = 0)
    /\ doSaveAs
    /\ ev' = Ev("doSaveAs", NoAction, NoAction, FALSE)
    /\ UNCHANGED <<gate, startup, limits>>

ClickAdd ==
    /\ ~confirmUnsavedOpen /\ busy = "null"
    /\ addEntryAtEnd

ClickAddAtEnd ==
    /\ ~confirmUnsavedOpen
    /\ addEntryAtEnd

ClickSort ==
    /\ ~confirmUnsavedOpen
    /\ ~(busy # "null" \/ Len(entries) < 2)
    /\ sortByKey

\* variant of EditKey that stores the typed text as it is
EditKeyRaw ==
    /\ ~confirmUnsavedOpen
    /\ \E i \in 1..Len(entries), text \in TypedKeys :
          updateEntry(entries[i].id, [key |-> text])
    /\ ev' = Ev("updateEntry", NoAction, NoAction, FALSE)

EditKey ==
    /\ ~confirmUnsavedOpen
    /\ \E i \in 1..Len(entries), text \in TypedKeys :
          updateEntry(entries[i].id, [key |-> normalizeKey(text)])
    /\ ev' = Ev("updateEntry", NoAction, NoAction, FALSE)

EditValue ==
    /\ ~confirmUnsavedOpen
    /\ \E i \in 1..Len(entries), text \in TypedValues :
          updateEntry(entries[i].id, [value |-> text])
    /\ ev' = Ev("updateEntry", NoAction, NoAction, FALSE)

\* variant of onCancel that also clears dirty
onCancelDropsEdits ==
    /\ confirmUnsavedOpen' = FALSE
    /\ dirty' = FALSE
    /\ UNCHANGED <<filePath, entries, busy, snack, pendingActionRef, flows,
                   savedEntries>>

\* Dialog onClose and the Cancel button run the same handler
onCancel ==
    /\ confirmUnsavedOpen' = FALSE
    /\ UNCHANGED <<filePath, entries, dirty, busy, snack, pendingActionRef,
                   flows, savedEntries>>

DialogCancel ==
    /\ confirmUnsavedOpen
    /\ onCancel
    /\ ev' = Ev("cancel", NoAction, NoAction, FALSE)
    /\ UNCHANGED <<startup, limits>>

DialogDiscard ==
    /\ confirmUnsavedOpen
    /\ confirmUnsavedOpen' = FALSE
    /\ pendingActionRef' = NoAction
    /\ IF pendingActionRef = NoAction
       THEN /\ ev' = Ev("discard", NoAction, NoAction, FALSE)
            /\ UNCHANGED <<filePath, entries, dirty, busy, snack, flows, savedEntries>>
       ELSE /\ Execute(pendingActionRef, TRUE)
            /\ ev' = Ev("discard", NoAction, pendingActionRef, TRUE)
    /\ UNCHANGED <<startup, limits>>

SnackClose ==
    /\ snack.open
    /\ snack' = [snack EXCEPT !.open = FALSE]
    /\ ev' = Ev("snackClose", NoAction, NoAction, FALSE)
    /\ UNCHANGED <<filePath, entries, dirty, busy, confirmUnsavedOpen,
                   pendingActionRef, flows, startup, limits, savedEntries>>

\* ------------------------------------------------------ service replies
\* variant of declinePicker that reports the cancelled picker as an error
declinePickerNotifies(f) ==
    /\ flows' = DelFlow(f)
    /\ snack' = Snack("error")
    /\ UNCHANGED busy

\* `if (!path) return`: a declined picker ends the call where it stands
declinePicker(f) ==
    /\ flows' = DelFlow(f)
    /\ UNCHANGED <<busy, snack>>

\* doOpen after the picker: a cancelled picker ends the flow, a picked path
\* sets busy and calls gxt_load
OpenPickerReply ==
    \E f \in FlowSet, picked \in Paths \cup {NoPath} :
        /\ f.op = "open" /\ f.stage = "picker"
        /\ IF picked = NoPath
           THEN declinePicker(f)
           ELSE /\ flows' = DelFlow(f) (+) SetToBag({[f EXCEPT !.stage = "invoke", !.path = picked]})
                /\ busy' = "loading"
                /\ UNCHANGED snack
        /\ ev' = Ev("openPicked", NoAction, [kind |-> f.op, path |-> picked], FALSE)
        /\ UNCHANGED <<filePath, entries, dirty, gate, startup, limits, savedEntries>>

\* the entry lists gxt_load returns in the runs at hand
Loadable == IF limits.allDocs THEN DocEntries ELSE LoadEntries

\* gxt_load resolves: setDoc, success notification, busy cleared
LoadReplyOk ==
    \E f \in FlowSet, es \in Loadable :
      \E fp \in {f.path, NoPath} :
        /\ f.op \in {"open", "loadPath"} /\ f.stage = "invoke"
        /\ setDoc([file_path |-> fp, entries |-> es])
        /\ snack' = Snack("success")
        /\ busy' = "null"
        /\ flows' = DelFlow(f)
        /\ savedEntries' = Saved(es)
        /\ ev' = Ev("loadOk", NoAction, [kind |-> f.op, path |-> f.path], f.auth)
        /\ UNCHANGED <<gate, startup, limits>>

\* variant of onLoadError that resets the document
onLoadErrorResets ==
    /\ filePath' = NoPath
    /\ entries' = << >>
    /\ dirty' = FALSE
    /\ snack' = Snack("error")
    /\ busy' = "null"

\* the catch and finally blocks of doOpen and doLoadFromPath
onLoadError ==
    /\ snack' = Snack("error")
    /\ busy' = "null"
    /\ UNCHANGED <<filePath, entries, dirty>>

\* gxt_load rejects
LoadReplyFail ==
    \E f \in FlowSet :
        /\ f.op \in {"open", "loadPath"} /\ f.stage = "invoke"
        /\ onLoadError
        /\ flows' = DelFlow(f)
        /\ ev' = Ev("loadFail", NoAction, NoAction, FALSE)
        /\ UNCHANGED <<gate, startup, limits, savedEntries>>

\* variant of pickedDoc that reads the current entries
liveDoc(picked, f) == toBackendDoc(picked, entries)

\* the document doSaveAs sends: the picked path with the entries its
\* closure captured when doSaveAs was called
pickedDoc(picked, f) == toBackendDoc(picked, f.entries)

\* doSaveAs after the picker: a cancelled picker ends the flow, a picked
\* path sets busy and calls gxt_save
SavePickerReply ==
    \E f \in FlowSet, picked \in Paths \cup {NoPath} :
        /\ f.op = "saveAs" /\ f.stage = "picker"
        /\ IF picked = NoPath
           THEN declinePicker(f)
           ELSE /\ flows' = DelFlow(f) (+) SetToBag({Flow("saveAs", "invoke", picked, << >>,
                                                    pickedDoc(picked, f), FALSE)})
                /\ busy' = "saving"
                /\ UNCHANGED snack
        /\ ev' = Ev("savePicked", NoAction, [kind |-> f.op, path |-> picked], FALSE)
        /\ UNCHANGED <<filePath, entries, dirty, gate, startup, limits, savedEntries>>

\* gxt_save resolves with {file_path: string | null}, or without the field
SaveReplyOk ==
    \E f \in FlowSet, res \in Paths \cup {NoPath, Undef} :
        /\ f.op \in {"save", "saveAs"} /\ f.stage = "invoke"
        /\ filePath' = IF res # Undef THEN res ELSE filePath
        /\ dirty' = FALSE
        /\ snack' = Snack("success")
        /\ busy' = "null"
        /\ flows' = DelFlow(f)
        /\ savedEntries' = Saved(f.doc.entries)
        /\ ev' = Ev("saveOk", [kind |-> f.op, path |-> f.path],
                     [kind |-> f.op, path |-> res], FALSE)
        /\ UNCHANGED <<entries, gate, startup, limits>>

\* variant of onSaveError that adopts the path the save was sent to
onSaveErrorSwitchesPath(f) ==
    /\ filePath' = f.path
    /\ snack' = Snack("error")
    /\ busy' = "null"
    /\ UNCHANGED <<entries, dirty>>

\* the catch and finally blocks of doSaveExistingPath and doSaveAs
onSaveError(f) ==
    /\ snack' = Snack("error")
    /\ busy' = "null"
    /\ UNCHANGED <<filePath, entries, dirty>>

\* gxt_save rejects
SaveReplyFail ==
    \E f \in FlowSet :
        /\ f.op \in {"save", "saveAs"} /\ f.stage = "invoke"
        /\ onSaveError(f)
        /\ flows' = DelFlow(f)
        /\ ev' = Ev("saveFail", NoAction, [kind |-> f.op, path |-> f.path], FALSE)
        /\ UNCHANGED <<gate, startup, limits, savedEntries>>

\* the mount effect's closure is the first render's: its requestAction reads
\* the `dirty` of that render
dirtyAtMount == FALSE

StartupPathReply ==
    /\ startup = "pending"
    /\ startup' = "done"
    /\ UNCHANGED limits
    /\ \E res \in Paths \cup {NoPath, "error"} :
          IF res \in Paths
          THEN requestAction([kind |-> "loadPath", path |-> res], dirtyAtMount)
          ELSE /\ ev' = Ev("startupNone", NoAction, NoAction, FALSE)
               /\ UNCHANGED <<filePath, entries, dirty, busy, snack, flows, gate,
                              savedEntries>>

Next ==
    \/ ClickNew \/ ClickOpen \/ KeyCtrlN \/ KeyCtrlO \/ KeyCtrlS
    \/ ClickSave \/ ClickSaveAs \/ ClickAdd \/ ClickAddAtEnd \/ ClickSort
    \/ EditKey \/ EditValue \/ DialogCancel \/ DialogDiscard \/ SnackClose
    \/ OpenPickerReply \/ LoadReplyOk \/ LoadReplyFail
    \/ SavePickerReply \/ SaveReplyOk \/ SaveReplyFail \/ StartupPathReply

Spec == Init /\ [][Next]_vars

SpecSaved == InitSaved /\ [][Next]_vars

SpecOverlap == InitOverlap /\ [][Next]_vars

\* a start by file association: the startup path is loaded and gxt_load
\* returns any of the DocEntries lists
InitLoad ==
    /\ InitApp
    /\ limits = [flows |-> MaxFlows, entries |-> 0, ev |-> TRUE,
                 saved |-> TRUE, allDocs |-> TRUE]

NextLoad == StartupPathReply \/ LoadReplyOk \/ LoadReplyFail

SpecLoad == InitLoad /\ [][NextLoad]_vars

\* calls of updateEntry(id, patch) on a loaded document, as loaded or after
\* a sortByKey, with the id of an entry or an id no entry has; ev records
\* the arguments and whether the call was made
UpdateIds == 1..(MaxUpdateEntries + 1)
UpdatePatches ==
    {[key |-> <<66>>], [value |-> "z"], [key |-> kA, value |-> "x"]}
UpdateDocs ==
    UNION {[1..n -> [key : {kA, <<66>>}, value : DocValues]] : n \in 0..MaxUpdateEntries}

InitUpdate ==
    /\ \E es \in UpdateDocs, sorted \in BOOLEAN :
          LET parsed == fromBackendDoc([file_path |-> "a.gxt", entries |-> es])
          IN  /\ filePath = parsed.filePath
              /\ entries = IF sorted THEN sortEntries(parsed.entries)
                           ELSE parsed.entries
              /\ dirty = sorted
    /\ busy = "null"
    /\ snack = Snack("success")
    /\ confirmUnsavedOpen = FALSE
    /\ pendingActionRef = NoAction
    /\ flows = EmptyBag
    /\ startup = "done"
    /\ limits = [flows |-> 0, entries |-> MaxUpdateEntries, ev |-> FALSE,
                 saved |-> FALSE, allDocs |-> FALSE]
    /\ \E id \in UpdateIds, patch \in UpdatePatches :
          ev = [op |-> "updateEntry", id |-> id, patch |-> patch, n |-> 0]
    /\ savedEntries = << >>

CallUpdateEntry ==
    /\ ev.op = "updateEntry" /\ ev.n = 0
    /\ updateEntry(ev.id, ev.patch)
    /\ ev' = [ev EXCEPT !.n = 1]

NextUpdate == CallUpdateEntry

SpecUpdate == InitUpdate /\ [][NextUpdate]_vars

\* the App right after it applied a document that gxt_load returned for
\* a.gxt, and the editing of that document
InitDoc ==
    /\ \E es \in DocEntries :
          LET parsed == fromBackendDoc([file_path |-> "a.gxt", entries |-> es])
          IN  /\ filePath = parsed.filePath
              /\ entries = parsed.entries
    /\ dirty = FALSE
    /\ busy = "null"
    /\ snack = Snack("success")
    /\ confirmUnsavedOpen = FALSE
    /\ pendingActionRef = NoAction
    /\ flows = EmptyBag
    /\ startup = "done"
    /\ limits = [flows |-> 0, entries |-> MaxDocEntries, ev |-> TRUE,
                 saved |-> FALSE, allDocs |-> FALSE]
    /\ ev = [op |-> "loadOk", req |-> NoAction,
             exec |-> [kind |-> "open", path |-> "a.gxt"], auth |-> FALSE]
    /\ savedEntries = << >>

\* calls of normalizeKey on a text, and once more on its own result; ev
\* records the text, the latest result and the number of calls
InitKey ==
    /\ filePath = NoPath
    /\ entries = << >>
    /\ dirty = FALSE
    /\ busy = "null"
    /\ snack = [open |-> FALSE, severity |-> "info"]
    /\ confirmUnsavedOpen = FALSE
    /\ pendingActionRef = NoAction
    /\ flows = EmptyBag
    /\ startup = "done"
    /\ limits = [flows |-> 0, entries |-> 0, ev |-> FALSE, saved |-> FALSE, allDocs |-> FALSE]
    /\ \E input \in KeyInputs :
          ev = [op |-> "normalizeKey", arg |-> input, res |-> << >>, n |-> 0]
    /\ savedEntries = << >>

CallNormalizeKey ==
    /\ ev.op = "normalizeKey" /\ ev.n < 2
    /\ ev' = [ev EXCEPT !.res = normalizeKey(IF ev.n = 0 THEN ev.arg ELSE ev.res),
                        !.n = ev.n + 1]
    /\ UNCHANGED <<filePath, entries, dirty, busy, snack, confirmUnsavedOpen,
                   pendingActionRef, flows, startup, limits, savedEntries>>

NextKey == CallNormalizeKey

SpecKey == InitKey /\ [][NextKey]_vars

NextDoc == ClickSort \/ EditKey \/ EditValue

SpecDoc == InitDoc /\ [][NextDoc]_vars

\* ======================================================== claim checks
\* what a step does, read off the state change
StartsOpen ==
    \E f \in BagToSet(flows') :
        f.op = "open" /\ f.stage = "picker" /\ flows' = AddFlow(f)

StartsLoad(path) ==
    \E f \in BagToSet(flows') :
        /\ f.op = "loadPath" /\ f.stage = "invoke" /\ f.path = path
        /\ flows' = AddFlow(f)
        /\ busy' = "loading"

RunsNew ==
    /\ filePath' = NoPath /\ entries' = << >> /\ dirty' = FALSE
    /\ snack' = Snack("info")
    /\ flows' = flows

Runs(action) ==
    CASE action.kind = "open" -> StartsOpen /\ UNCHANGED docVars
      [] action.kind = "new" -> RunsNew
      [] action.kind = "loadPath" -> StartsLoad(action.path) /\ UNCHANGED docVars
      [] OTHER -> FALSE

RunsNothing == UNCHANGED <<filePath, entries, dirty, busy, snack, flows>>

ReplacesDocument ==
    \/ ev'.op = "loadOk"
    \/ ev'.op \in {"requestAction", "discard"} /\ ev'.exec.kind = "new"

StartsLoadCall ==
    \/ ev'.op = "openPicked" /\ busy' = "loading"
    \/ ev'.op \in {"requestAction", "discard"} /\ ev'.exec.kind = "loadPath"

SaveCalls == {f \in FlowSet : f.stage = "invoke" /\ f.op \in {"save", "saveAs"}}
LoadCalls == {f \in FlowSet : f.stage = "invoke" /\ f.op \in {"open", "loadPath"}}

ValidKeys(bes) ==
    /\ \A i \in 1..Len(bes) :
          /\ bes[i].key # << >>
          /\ Len(bes[i].key) \in 1..8
          /\ \A j \in 1..Len(bes[i].key) : IsPrintable(bes[i].key[j])
          /\ bes[i].key = normalizeKey(bes[i].key)
    /\ \A i, j \in 1..Len(bes) : i # j => bes[i].key # bes[j].key

\* C1: the document is never replaced by a guarded action (load applied,
\* new) while dirty is true unless that action was started by
\* confirm-discard after the document last became dirty.
C1_NoUnconfirmedDiscard ==
    [][(ReplacesDocument /\ dirty) => ev'.auth]_vars

\* C2: requestAction with dirty false runs the requested action at once and
\* leaves the pending action and the dialog alone; with dirty true it runs
\* nothing, stores the request as the pending action and opens the dialog.
C2_RequestGate ==
    [][ev'.op = "requestAction" =>
         IF dirty
         THEN /\ RunsNothing
              /\ pendingActionRef' = ev'.req
              /\ confirmUnsavedOpen'
         ELSE /\ Runs(ev'.req)
              /\ UNCHANGED <<pendingActionRef, confirmUnsavedOpen>>]_vars

\* C3: confirm-discard runs exactly the stored pending action, clears it and
\* closes the dialog; every guarded action requested while dirty replaces
\* the stored one without running, so only the latest request is run.
C3_ConfirmRunsLatest ==
    [][/\ ev'.op = "discard" =>
            /\ Runs(pendingActionRef)
            /\ pendingActionRef' = NoAction
            /\ ~confirmUnsavedOpen'
       /\ (ev'.op = "requestAction" /\ dirty) =>
            /\ RunsNothing
            /\ pendingActionRef' = ev'.req]_vars

\* C4: cancel runs no guarded action and leaves path, entries and dirty as
\* they were.
C4_CancelChangesNothing ==
    [][ev'.op = "cancel" => (RunsNothing /\ ~confirmUnsavedOpen')]_vars

C4_Witness ==
    /\ ev.op = "cancel"
    /\ dirty /\ entries # << >>
    /\ pendingActionRef.kind = "open"

\* C5: Save and Save-As invoked with a validation error open no picker, make
\* no gxt_save call, raise an error notification and leave path, entries and
\* dirty unchanged.
C5_InvalidSaveRefused ==
    [][(ev'.op \in {"onSaveRequested", "doSaveAs"} /\ hasValidationError(entries)) =>
         /\ flows' = flows
         /\ busy' = busy
         /\ snack' = Snack("error")
         /\ UNCHANGED docVars]_vars

C5_Witness ==
    /\ ev.op = "onSaveRequested"
    /\ filePath = NoPath
    /\ hasValidationError(entries)
    /\ snack = Snack("error")
    /\ dirty /\ flows = EmptyBag

\* C6: every document passed to gxt_save has only KEYs that are non-empty,
\* printable ASCII of length 1..8, equal to their normalization and pairwise
\* distinct.
C6_SavedKeysValid ==
    \A f \in SaveCalls : ValidKeys(f.doc.entries)

C6_Witness ==
    \E f \in SaveCalls :
        /\ f.op = "saveAs"
        /\ f.doc.entries # << >>
        /\ hasValidationError(entries)

\* C7: dirty is false right after a document replacement (load applied,
\* new) and true right after every updateEntry, addEntryAtEnd and sortByKey,
\* whether or not the entries changed.
C7_DirtyAfterOperation ==
    /\ ev.op \in {"updateEntry", "addEntryAtEnd", "sortByKey"} => dirty
    /\ (ev.op = "loadOk" \/ ev.exec.kind = "new") => ~dirty

C7_Witness ==
    /\ ev.op = "sortByKey"
    /\ Len(entries) = 2
    /\ entries[1].key = entries[2].key
    /\ entries[1].id < entries[2].id
    /\ dirty

\* C8: whenever the current entries differ from those of the last successful
\* load, new or save, dirty is true.
C8_UnsavedIsDirty ==
    toBackendDoc(NoPath, entries).entries # savedEntries => dirty

\* C9: at most one gxt_load/gxt_save call is outstanding at any time.
C9_OneCallAtATime ==
    \A f, g \in SaveCalls \cup LoadCalls : f = g /\ flows[f] = 1

\* C10: a failed gxt_load leaves path, entries and dirty as they were when
\* the load started (starting it and failing both leave them alone), raises
\* an error notification and returns busy to null.
C10_LoadFailureChangesNothing ==
    [][/\ ev'.op = "loadFail" =>
            /\ UNCHANGED docVars
            /\ snack' = Snack("error")
            /\ busy' = "null"
       /\ StartsLoadCall => UNCHANGED docVars]_vars

C10_Witness ==
    /\ ev.op = "loadFail"
    /\ dirty /\ entries # << >>
    /\ busy = "null"
    /\ snack = Snack("error")

\* C11: a failed gxt_save, in Save or Save-As, leaves path, entries and dirty
\* as they were through the whole attempt (starting it, picking the
\* destination, the failure), so the path is not switched to the Save-As
\* destination; the failure raises an error notification.
C11_SaveFailureChangesNothing ==
    [][/\ ev'.op = "saveFail" =>
            /\ UNCHANGED docVars
            /\ snack' = Snack("error")
       /\ ev'.op \in {"onSaveRequested", "doSaveAs", "savePicked"} =>
            UNCHANGED docVars]_vars

C11_Witness ==
    /\ ev.op = "saveFail"
    /\ ev.exec.kind = "saveAs"
    /\ filePath \in Paths /\ ev.exec.path \in Paths \ {filePath}
    /\ dirty /\ entries # << >>
    /\ snack = Snack("error")

\* C12: when the user declines the open picker or the save picker, no
\* gxt_load/gxt_save call is started, no notification is raised, busy is not
\* set, and path, entries and dirty are unchanged.
C12_DeclinedPickerIsSilent ==
    [][(ev'.op \in {"openPicked", "savePicked"} /\ ev'.exec.path = NoPath) =>
         /\ UNCHANGED <<filePath, entries, dirty, busy, snack>>
         /\ BagCardinality(flows') = BagCardinality(flows) - 1
         /\ \A f \in BagToSet(flows') :
               f.stage = "invoke" => (f \in FlowSet /\ flows'[f] = flows[f])]_vars

C12_Witness ==
    /\ ev.op = "savePicked"
    /\ ev.exec.path = NoPath
    /\ dirty /\ entries # << >>
    /\ busy = "null" /\ flows = EmptyBag
    /\ ~snack.open

\* C13: Save on a valid document without a path starts the Save-As flow (the
\* save picker, no gxt_save call yet); a gxt_save call of that flow carries
\* the picked destination, and no document sent to gxt_save has an absent
\* file_path.
C13_SaveWithoutPathPicksFirst ==
    /\ [](\A f \in SaveCalls : f.doc.file_path \in Paths)
    /\ [][/\ (/\ ev'.op = "onSaveRequested"
              /\ filePath = NoPath
              /\ ~hasValidationError(entries)) =>
                /\ \E f \in BagToSet(flows') :
                      /\ f.op = "saveAs" /\ f.stage = "picker"
                      /\ flows' = AddFlow(f)
                /\ busy' = busy
                /\ UNCHANGED docVars
          /\ (ev'.op = "savePicked" /\ ev'.exec.path # NoPath) =>
                \E f \in BagToSet(flows'), g \in FlowSet :
                      /\ f.op = "saveAs" /\ f.stage = "invoke"
                      /\ g.op = "saveAs" /\ g.stage = "picker"
                      /\ f.doc.file_path = ev'.exec.path
                      /\ flows' = DelFlow(g) (+) SetToBag({f})]_vars

C13_Witness ==
    /\ ev.op = "savePicked"
    /\ filePath = NoPath
    /\ Len(entries) = 1 /\ ~hasValidationError(entries)
    /\ \E f \in SaveCalls : f.op = "saveAs" /\ f.doc.file_path \in Paths
    /\ busy = "saving"

C15_StartupPathIsGated ==
    [][/\ startup = "done" => startup' = "done"
       /\ (ev'.op = "requestAction" /\ ev'.req.kind = "loadPath") =>
            /\ startup = "pending" /\ startup' = "done"
            /\ IF dirty
               THEN /\ RunsNothing
                    /\ pendingActionRef' = ev'.req
                    /\ confirmUnsavedOpen'
               ELSE /\ Runs(ev'.req)
                    /\ UNCHANGED gate]_vars

\* C16: hasValidationError is true exactly when some entry has an empty
\* KEY, a KEY different from normalizeKey(KEY), or a non-empty KEY equal to
\* the KEY of another entry; it is false for the empty document, and in
\* [A/x, A/y] both entries are flagged duplicate.
C16_ValidationAggregate ==
    /\ hasValidationError(entries) <=>
          \E i \in 1..Len(entries) :
             \/ Len(entries[i].key) = 0
             \/ entries[i].key # normalizeKey(entries[i].key)
             \/ /\ Len(entries[i].key) > 0
                /\ \E j \in 1..Len(entries) : j # i /\ entries[j].key = entries[i].key
    /\ entries = << >> => ~hasValidationError(entries)
    /\ toBackendDoc(NoPath, entries).entries
          = <<[key |-> kA, value |-> "x"], [key |-> kA, value |-> "y"]>>
       => /\ keyDup(entries, entries[1]) /\ keyDup(entries, entries[2])
          /\ hasValidationError(entries)

C16_Witness ==
    /\ ev.op = "updateEntry"
    /\ Len(entries) = 3
    /\ entries[1].key = kA /\ entries[3].key = kA
    /\ entries[2].key = <<66>>
    /\ hasValidationError(entries)
    /\ keyDup(entries, entries[1]) /\ ~keyDup(entries, entries[2])
    /\ ~keyEmpty(entries[2]) /\ ~keyInvalid(entries[2])

\* byte-wise order of KEYs: a strict prefix first, else the first differing
\* byte decides
KeyBefore(a, b) ==
    \/ Len(a) < Len(b) /\ SubSeq(b, 1, Len(a)) = a
    \/ \E i \in 1..Min(Len(a), Len(b)) :
          /\ SubSeq(a, 1, i - 1) = SubSeq(b, 1, i - 1)
          /\ a[i] < b[i]

Count(es, e) == Cardinality({i \in 1..Len(es) : es[i] = e})

PositionsOf(es, k) == {i \in 1..Len(es) : es[i].key = k}

\* C20: sortByKey leaves a permutation of the entries (same ids, keys and
\* values, none added or lost) in non-decreasing byte-wise KEY order with a
\* strict prefix first: "AB" before "ABC", "B" after "AB", the empty KEY
\* before every non-empty KEY.
C20_SortOrdersByKey ==
    [][ev'.op = "sortByKey" =>
         /\ Len(entries') = Len(entries)
         /\ \A i \in 1..Len(entries) :
               Count(entries', entries[i]) = Count(entries, entries[i])
         /\ \A i, j \in 1..Len(entries') :
               i < j => ~KeyBefore(entries'[j].key, entries'[i].key)
         /\ \A i \in PositionsOf(entries', <<65, 66>>) :
               /\ \A j \in PositionsOf(entries', <<65, 66, 67>>) : i < j
               /\ \A j \in PositionsOf(entries', <<66>>) : i < j
         /\ \A i \in PositionsOf(entries', << >>), j \in 1..Len(entries') :
               entries'[j].key # << >> => i < j]_vars

C20_Witness ==
    /\ ev.op = "sortByKey"
    /\ Len(entries) = 3
    /\ entries[1].key = <<65, 66>> /\ entries[1].id = 3
    /\ entries[2].key = <<65, 66, 67>> /\ entries[2].id = 1
    /\ entries[3].key = <<66>> /\ entries[3].id = 2

\* the first (up to) k characters of s in 0x20..0x7E, in their order
RECURSIVE ScanKey(_, _)
ScanKey(s, k) ==
    IF s = << >> \/ k = 0 THEN << >>
    ELSE IF Head(s) \in 32..126
         THEN <<Head(s)>> \o ScanKey(Tail(s), k - 1)
         ELSE ScanKey(Tail(s), k)

\* C17: normalizeKey(s) has length at most 8, only code points in
\* 0x20..0x7E, and is the first (up to) 8 printable-ASCII characters of s in
\* their original order; it may be empty.
C17_NormalizedKeyShape ==
    ev.n = 1 =>
        /\ Len(ev.res) <= 8
        /\ \A i \in 1..Len(ev.res) : ev.res[i] \in 32..126
        /\ ev.res = ScanKey(ev.arg, 8)

C17_Witness ==
    /\ ev.n = 1
    /\ Len(ev.arg) = 9 /\ ev.arg[1] = 233 /\ ev.arg[9] = 66
    /\ Len(ev.res) = 8 /\ ev.res[8] = 66

\* C18: normalizeKey is idempotent: normalizing its own result gives the
\* same result.
C18_NormalizeIdempotent ==
    [][ev'.n = 2 => ev'.res = ev.res]_vars

C18_Witness ==
    /\ ev.n = 2
    /\ Len(ev.arg) = 9
    /\ \E i, j \in 1..9 : i # j /\ ev.arg[i] = 233 /\ ev.arg[j] = 233
    /\ Len(ev.res) = 7

\* C19 as claimed: "héllo!!123456" loses only its second character and,
\* cut to 8, gives "hllo!!1".
C19_ScenarioAsClaimed ==
    (ev.n = 1 /\ ev.arg = ScenarioKey) =>
        /\ ev.res = SubSeq(<<104, 108, 108, 111, 33, 33, 49, 50, 51, 52, 53, 54>>, 1, Len(ev.res))
        /\ ev.res = <<104, 108, 108, 111, 33, 33, 49>>

\* C19 amended: "héllo!!123456" loses only its second character and, cut
\* to 8, gives the 8 characters "hllo!!12".
C19_ScenarioKey ==
    (ev.n = 1 /\ ev.arg = ScenarioKey) =>
        /\ ev.res = SubSeq(<<104, 108, 108, 111, 33, 33, 49, 50, 51, 52, 53, 54>>, 1, Len(ev.res))
        /\ ev.res = <<104, 108, 108, 111, 33, 33, 49, 50>>

C19_Witness ==
    /\ ev.n = 1 /\ ev.arg = ScenarioKey
    /\ Len(ev.res) = 8

\* C21: sortByKey is idempotent on the entry order: a sortByKey that follows
\* a sortByKey leaves exactly the same sequence of entries, also with
\* duplicate or empty KEYs.
C21_SortIdempotent ==
    [][(ev.op = "sortByKey" /\ ev'.op = "sortByKey") => entries' = entries]_vars

C21_Witness ==
    /\ ev.op = "sortByKey"
    /\ Len(entries) = 3
    /\ entries[1].key = << >>
    /\ entries[2].key = kA /\ entries[3].key = kA
    /\ entries[2].id = 1 /\ entries[3].id = 2 /\ entries[1].id = 3
    /\ sortEntries(entries) = entries

\* C22: a loaded document yields entries with the received KEY/VALUE pairs
\* in the received order, each with an id no other entry has; toBackendDoc
\* yields the KEY/VALUE pairs of the entries in their order, without ids, so
\* converting the loaded entries back gives the entries received.
C22_TranslationRoundTrip ==
    ev.op = "loadOk" =>
        /\ Len(entries) = Len(savedEntries)
        /\ \A i \in 1..Len(entries) :
              /\ entries[i].key = savedEntries[i].key
              /\ entries[i].value = savedEntries[i].value
              /\ \A j \in 1..Len(entries) : j # i => entries[j].id # entries[i].id
        /\ \A i \in 1..Len(entries) :
              /\ DOMAIN toBackendDoc(filePath, entries).entries[i] = {"key", "value"}
              /\ toBackendDoc(filePath, entries).entries[i].key = entries[i].key
              /\ toBackendDoc(filePath, entries).entries[i].value = entries[i].value
        /\ toBackendDoc(filePath, entries).file_path = filePath
        /\ toBackendDoc(filePath, entries).entries = savedEntries

C22_Witness ==
    /\ ev.op = "loadOk"
    /\ savedEntries = <<[key |-> <<66>>, value |-> "y"], [key |-> kA, value |-> "x"],
                        [key |-> <<66>>, value |-> "x"]>>
    /\ Len(entries) = 3
    /\ filePath = "b.gxt"

\* C23: in every reachable state a pending action is stored exactly when
\* the confirmation dialog is open; in particular none remains stored after
\* cancel.
C23_GateStateInvariant ==
    (pendingActionRef # NoAction) <=> confirmUnsavedOpen

Normalized(k) == Len(k) <= 8 /\ \A i \in 1..Len(k) : k[i] \in 32..126

\* C24: a KEY written through the KEY field is stored normalized, so a
\* malformed KEY is only ever that of an entry of a loaded document whose
\* KEY was not edited since; without a load every stored KEY stays equal to
\* its normalization.
C24_EditedKeysNormalized ==
    [][/\ \A i \in 1..Len(entries') :
             \/ /\ Normalized(entries'[i].key)
                /\ entries'[i].key = normalizeKey(entries'[i].key)
             \/ ev'.op = "loadOk"
             \/ \E j \in 1..Len(entries) :
                   /\ entries[j].id = entries'[i].id
                   /\ entries[j].key = entries'[i].key
       /\ ((\A j \in 1..Len(entries) : Normalized(entries[j].key))
             /\ ev'.op # "loadOk")
          => \A i \in 1..Len(entries') : Normalized(entries'[i].key)]_vars

C24_Witness ==
    /\ ev.op = "updateEntry"
    /\ Len(entries) = 2
    /\ entries[1].key = kAe /\ keyInvalid(entries[1])
    /\ entries[2].key = kA /\ ~keyInvalid(entries[2])

\* C25: updateEntry(id, patch) changes only the patched fields of the entry
\* whose id matches: the number of entries, their order, their ids, every
\* other entry and the path are unchanged; with no entry of that id the
\* entry sequence is left exactly as it was.
C25_UpdateEntryFrame ==
    [][(ev.n = 0 /\ ev'.n = 1) =>
         /\ Len(entries') = Len(entries)
         /\ filePath' = filePath
         /\ \A i \in 1..Len(entries) :
               /\ entries'[i].id = entries[i].id
               /\ entries[i].id # ev.id => entries'[i] = entries[i]
               /\ entries[i].id = ev.id =>
                     \A fld \in {"key", "value"} :
                         entries'[i][fld] = (IF fld \in DOMAIN ev.patch
                                             THEN ev.patch[fld]
                                             ELSE entries[i][fld])
         /\ (\A i \in 1..Len(entries) : entries[i].id # ev.id)
               => entries' = entries]_vars

C25_Witness ==
    /\ ev.op = "updateEntry" /\ ev.n = 1
    /\ ev.id = 1 /\ ev.patch = [value |-> "z"]
    /\ Len(entries) = 3
    /\ entries[1].id = 2 /\ entries[1].key = kA /\ entries[1].value = "y"
    /\ entries[2].id = 3 /\ entries[2].key = kA /\ entries[2].value = "x"
    /\ entries[3].id = 1 /\ entries[3].key = <<66>> /\ entries[3].value = "z"
    /\ filePath = "a.gxt" /\ dirty

\* C26: busy is non-null in every state where a gxt_load or gxt_save call is
\* outstanding (and every started call, once the service replies, returns
\* busy to null).
C26_BusyTracksCalls ==
    (SaveCalls \cup LoadCalls # {}) => busy # "null"

====
